---- MODULE Spec2Model ----
(***************************************************************************)
(* redis-spaceship: the decks of a ship (HashDeck, JsonDeck) kept in a     *)
(* Redis server shared by several writers, and the operations on them.    *)
(*                                                                         *)
(* The Redis server is modelled by its key space.  One Redis command is   *)
(* one atomic step; a MULTI/EXEC block is one atomic step; WATCH marks a  *)
(* connection, and any later command of another connection that modifies  *)
(* the watched key makes the connection's EXEC fail (WatchError).         *)
(***************************************************************************)
EXTENDS Integers, Sequences, FiniteSets, TLC

(***************************************************************************)
(* Bounds of the model.                                                    *)
(***************************************************************************)
\* store() calls the writers make, all together
MaxCalls == 3

\* store() calls the writers make where they contend for one deck
MaxContendedCalls == 5

\* accelerate() calls made on a ship
MaxAccelerateCalls == 2

\* store() calls made on the decks of a ship that accelerates
MaxShipStores == 1

\* the last value the clock reaches
MaxTime == 1

\* events a log takes where add() is called directly
MaxEvents == 3

(***************************************************************************)
(* Python numbers.  obj.mass is an int (86) or a float (86.0); the two    *)
(* compare equal in Python, but redis-py sends them as "86" and "86.0".   *)
(***************************************************************************)
PyInt(n) == [v |-> n, t |-> "int"]
PyFloat(n) == [v |-> n, t |-> "float"]
\* float(x), and what a marshmallow float field loads
float(x) == [v |-> x.v, t |-> "float"]
\* a + b
PyAdd(a, b) == [v |-> a.v + b.v, t |-> IF a.t = "float" \/ b.t = "float" THEN "float" ELSE "int"]

(***************************************************************************)
(* The floats of the propulsion arithmetic, as exact fractions n/d in     *)
(* lowest terms with d > 0.  Rounding of floats is not modelled.          *)
(***************************************************************************)
RECURSIVE GCD(_, _)
GCD(a, b) == IF b = 0 THEN a ELSE GCD(b, a % b)

Abs(x) == IF x < 0 THEN -x ELSE x

Rat(n, d) ==
    LET g == GCD(Abs(n), Abs(d))
        s == IF d < 0 THEN -1 ELSE 1
    IN  [n |-> (s * n) \div g, d |-> (s * d) \div g]

RatInt(k) == [n |-> k, d |-> 1]
RatAdd(a, b) == Rat(a.n * b.d + b.n * a.d, a.d * b.d)
RatSub(a, b) == Rat(a.n * b.d - b.n * a.d, a.d * b.d)
RatMul(a, b) == Rat(a.n * b.n, a.d * b.d)
\* a / b for b # 0
RatDiv(a, b) == Rat(a.n * b.d, a.d * b.n)
RatLess(a, b) == a.n * b.d < b.n * a.d

\* int(x), and the integral part math.modf(x) returns: x rounded towards zero
Trunc(x) == IF x.n >= 0 THEN x.n \div x.d ELSE -((-x.n) \div x.d)

\* math.modf(x): the fractional and the integral part, both with the sign of x
modf(x) == [remainder |-> RatSub(x, RatInt(Trunc(x))), seconds_to_burn |-> Trunc(x)]

(***************************************************************************)
(* models.py: the dataclasses and object_schemas_by_type.                 *)
(***************************************************************************)
Person(n, m) == [type |-> "person", name |-> n, mass |-> m]

\* Direction: two of the eight members
Direction == {"N", "E"}

Velocity(speed_kmh_, direction) == [speed_kmh |-> speed_kmh_, direction |-> direction]

Event(timestamp, data) == [timestamp |-> timestamp, data |-> data]

Vehicle(n, b, objs) == [type |-> "vehicle", name |-> n, base_mass |-> b, objects |-> objs]

object_schemas_by_type == {"person", "object", "vehicle"}

\* the fields a schema dumps and accepts on load
SchemaFields(type) == IF type = "vehicle" THEN {"name", "base_mass", "objects", "type"} ELSE {"name", "mass", "type"}

RECURSIVE SumMass(_, _)
\* sum(o.mass for o in objects.values()), starting from the int 0
SumMass(objs, names) ==
    IF names = {} THEN PyInt(0)
    ELSE LET n == CHOOSE x \in names : TRUE
         IN  PyAdd(SumMass(objs, names \ {n}), objs[n].mass)

\* Vehicle.mass / Person.mass
mass(o) == IF o.type = "vehicle" THEN PyAdd(o.base_mass, SumMass(o.objects, DOMAIN o.objects)) ELSE o.mass

\* the empty dict
EmptyDict == [x \in {} |-> x]

(***************************************************************************)
(* The ship of tests/test_redis.py: deck 'main' is a HashDeck, deck       *)
(* 'quarters' is a JsonDeck.                                              *)
(***************************************************************************)
Decks == {"main", "quarters"}

\* two HashDecks on the one Redis, as tests/test_redis.py constructs
\* HashDeck('main', redis, 1000) and HashDeck('quarters', redis, 1000); the
\* second is named 'hold' here, 'quarters' being the JsonDeck of the ship
HashDecks == {"main", "hold"}

AllDecks == Decks \cup HashDecks

DeckClass(d) == IF d \in HashDecks THEN "HashDeck" ELSE "JsonDeck"

max_storage_kg == 4

Writers == {"w1", "w2"}

\* The objects the writers store.
bob == Person("Bob", PyInt(1))
al == Person("Al", PyInt(1))
\* a rover with Bob in it, a rover with Al in it
roverB == Vehicle("rover", PyInt(1), [n \in {"Bob"} |-> bob])
roverA == Vehicle("rover", PyInt(1), [n \in {"Al"} |-> al])
\* a rover whose base mass is the float 1.0
roverF == Vehicle("rover", PyFloat(1), [n \in {"Bob"} |-> bob])
\* a vehicle that has the name of the deck 'main'
mainV == Vehicle("main", PyInt(1), [n \in {"Bob"} |-> Person("Bob", PyInt(2))])

Cargo == {bob, roverB, roverA, roverF}

\* the objects stored where the claim is about the names of the keys
KeysCargo == {bob, roverB, mainV}

\* the objects stored where the writers contend
ContendedCargo == {bob, roverB}

Names == {"Bob", "Al", "rover", "main"}

(***************************************************************************)
(* The ships of tests/test_python.py and tests/test_redis.py.  Masses are *)
(* in units of 10^6 kg and the thrust in units of 10^6 N, so that the     *)
(* ship of the tests (2e6 kg, 5e7 N) is a ship of mass 2 and thrust 50.   *)
(***************************************************************************)
THRUST_PER_SECOND_NEWTONS == 50

FUEL_BURNED_PER_SECOND == 2

base_mass == 2

\* data['current_gravity'] at construction: with base mass 2 the thrust is
\* greater than the weight (10), equal to it (25), less than it (30)
Gravities == {10, 25, 30}

low_fuel_threshold == 1

ShipClasses == {"DictShip", "RedisShip"}

\* data['current_fuel'] at construction: 0 is below the low-fuel threshold,
\* 3 and 5 run low, 100 is ample
FuelLevels == {0, 3, 5, 100}

\* the target velocities accelerate() is called with
TargetSpeeds == {27, 54, 81, 108}

\* a vehicle that is heavier than a deck takes
loader == Vehicle("loader mech", PyInt(9), EmptyDict)

\* the objects stored on the decks of a ship
ShipCargo == {bob, roverB, loader}

\* the objects stored on the decks of a ship that accelerates
AccelerateCargo == {bob, roverB}

(***************************************************************************)
(* State.  The first five variables are the keys of the Redis server.     *)
(***************************************************************************)
VARIABLES
    stored_mass_key,     \* keys.deck_stored_mass(d): the counter (absent = 0)
    deck_items_set,      \* keys.deck_items_set(d): sorted set, member -> score
    item_hashes,         \* keys.deck_item(d, n) and keys.container_item(c, n): hashes
    container_items_set, \* keys.container_items_set(c): sorted set, member -> score
    deck_json,           \* keys.deck_json(d): the JSON document {"mass", "objects"}
    pc,                  \* where each writer is in its store() call
    call,                \* the deck and the object of each writer's call
    dirty,               \* the writer's WATCHed key was modified since its WATCH
    retries,             \* WatchErrors of the writer's current call
    ncalls,              \* store() calls started so far
    returned,            \* the calls that have returned, with their outcome
    repeated,            \* some name was passed to two store() calls on the deck
    last_stored,         \* per deck and name, the object of the last store() that succeeded
    contained_left,      \* store_non_atomic: the contained objects not yet persisted
    checked,             \* the stored mass the writer's capacity check read: of the current attempt
                         \* of store() (0 outside one), of the last call of a variant without transaction
    stored_at_step,      \* the burn steps the accelerate() call in progress had drawn when a
                         \* store last ended with its writes made (-1: none did during a call)
    ship_class,          \* "DictShip" (tests/test_python.py) or "RedisShip" (tests/test_redis.py)
    storage,             \* DictDeck 'main': data['decks']['main']['objects'], name -> object
    dict_call,           \* the last DictDeck.store() call: its object and its outcome
    current_fuel,        \* data['current_fuel'] / keys.ship_current_fuel()
    current_gravity,     \* data['current_gravity'] / keys.ship_current_gravity()
    speed_kmh,           \* data['speed_kmh'][direction] / keys.ship_current_speed(direction)
    events,              \* ListEventLog.events
    added,               \* the events add() was called with, in call order, and how each call ended
    now,                 \* what time.time() returns
    apc,                 \* where the accelerate() call is
    acall,               \* the accelerate() call: its arguments and what it logged
    gen,                 \* the frame of the generator thruster.fire() returned
    naccelerate          \* accelerate() calls started so far

redis == <<stored_mass_key, deck_items_set, item_hashes, container_items_set, deck_json>>

writers == <<pc, call, dirty, retries, ncalls, returned, repeated, last_stored, contained_left, checked, stored_at_step>>

ship == <<ship_class, storage, dict_call, current_fuel, current_gravity, speed_kmh, events, added, now, apc, acall, gen, naccelerate>>

vars == <<redis, writers, stored_at_step, ship>>

(***************************************************************************)
(* keys.py.  Every key starts with PREFIX; a key is modelled by the parts *)
(* that follow it.  deck_item and container_item build the same string.   *)
(***************************************************************************)
deck_item(deck_name, item_name) == <<deck_name, item_name>>

container_item(container_name, item_name) == <<container_name, item_name>>

(***************************************************************************)
(* Redis commands on values.                                               *)
(***************************************************************************)
\* ZADD key {member: score}: the sorted set after the command
ZADD(zset, member, score) == [m \in DOMAIN zset \cup {member} |-> IF m = member THEN score ELSE zset[m]]

\* ZADD signals the key as modified only when it added or updated a member
ZADD_modifies(zset, member, score) == member \notin DOMAIN zset \/ zset[member] # score

\* HSET key mapping: the fields of the mapping are set, the other fields stay
HSET(hashes, key, mapping) ==
    LET old == IF key \in DOMAIN hashes THEN hashes[key] ELSE EmptyDict
        new == [f \in DOMAIN old \cup DOMAIN mapping |-> IF f \in DOMAIN mapping THEN mapping[f] ELSE old[f]]
    IN  [k \in DOMAIN hashes \cup {key} |-> IF k = key THEN new ELSE hashes[k]]

\* HGETALL key: the empty dict when the key does not exist
HGETALL(hashes, key) == IF key \in DOMAIN hashes THEN hashes[key] ELSE EmptyDict

\* INCRBY accepts only an integer argument ("86"), not "86.0"
INCRBY_accepts(amount) == amount.t = "int"

(***************************************************************************)
(* schema.dump and schema.load                                             *)
(***************************************************************************)
\* schema.dump(obj), with 'objects' popped: the mapping HSET stores
HashDump(o) ==
    IF o.type = "vehicle" THEN [name |-> o.name, base_mass |-> o.base_mass, type |-> o.type]
    ELSE [name |-> o.name, mass |-> o.mass, type |-> o.type]

\* schema.dump(obj) with every contained object dumped: the JSON value
JsonDump(o) ==
    IF o.type = "vehicle"
    THEN [name |-> o.name, base_mass |-> o.base_mass, type |-> o.type,
          objects |-> [n \in DOMAIN o.objects |-> HashDump(o.objects[n])]]
    ELSE [name |-> o.name, mass |-> o.mass, type |-> o.type]

\* what a failed load or get returns in place of an object
NoObject == EmptyDict

Loaded(o) == [error |-> "none", obj |-> o]

Raised(e) == [error |-> e, obj |-> NoObject]

\* schema.load(dict): numbers load as floats; a missing or unknown field is refused
schema_load(h) ==
    IF h.type = "vehicle"
    THEN IF {"name", "base_mass"} \subseteq DOMAIN h /\ DOMAIN h \subseteq SchemaFields("vehicle")
         THEN Loaded(Vehicle(h.name, float(h.base_mass), EmptyDict))
         ELSE Raised("ValidationError")
    ELSE IF {"name", "mass"} \subseteq DOMAIN h /\ DOMAIN h \subseteq SchemaFields(h.type)
         THEN Loaded([type |-> h.type, name |-> h.name, mass |-> float(h.mass)])
         ELSE Raised("ValidationError")

\* load_object(obj): obj['type'] raises KeyError on a dict without 'type'
load_object(h) ==
    IF "type" \notin DOMAIN h THEN Raised("KeyError")
    ELSE IF h.type \notin object_schemas_by_type THEN Raised("InvalidItem")
    ELSE schema_load(h)

\* an object as a get() of it returns it: equal to o in Python (86 == 86.0)
AsLoaded(o) ==
    IF o.type = "vehicle"
    THEN Vehicle(o.name, float(o.base_mass),
                 [n \in DOMAIN o.objects |-> [o.objects[n] EXCEPT !.mass = float(@)]])
    ELSE [o EXCEPT !.mass = float(@)]

\* the decks after construction, and writers that have called nothing
DecksConstructed ==
    /\ stored_mass_key = [d \in AllDecks |-> 0]
    /\ deck_items_set = [d \in AllDecks |-> EmptyDict]
    /\ item_hashes = EmptyDict
    /\ container_items_set = EmptyDict
    /\ deck_json = [d \in AllDecks |-> [mass |-> 0, objects |-> EmptyDict]]
    /\ pc = [w \in Writers |-> "idle"]
    /\ call = [w \in Writers |-> [deck |-> "none", obj |-> NoObject]]
    /\ dirty = [w \in Writers |-> FALSE]
    /\ retries = [w \in Writers |-> 0]
    /\ ncalls = 0
    /\ returned = {}
    /\ repeated = [d \in AllDecks |-> FALSE]
    /\ last_stored = [d \in AllDecks |-> EmptyDict]
    /\ contained_left = [w \in Writers |-> {}]
    /\ checked = [w \in Writers |-> 0]
    /\ stored_at_step = -1

\* the generator frame before the first next()
NotStarted ==
    [started |-> FALSE, acceleration_per_second_kmh |-> RatInt(0), remainder |-> RatInt(0),
     target_burn |-> 0, i |-> 0, final |-> FALSE]

NoAccelerate ==
    [target_velocity |-> Velocity(0, "N"), ship_weight_kg |-> 0, ship_mass |-> 0,
     fuel_before |-> RatInt(0), speed_before |-> RatInt(0), logged |-> << >>]

\* a ship of class c after construction, with fuel f, where gravity is g
ShipConstructed(c, f, g) ==
    /\ ship_class = c
    /\ storage = EmptyDict
    /\ dict_call = [obj |-> NoObject, result |-> "none"]
    /\ current_fuel = f
    /\ current_gravity = g
    /\ speed_kmh = [d \in Direction |-> RatInt(0)]
    /\ events = << >>
    /\ added = << >>
    /\ now = 0
    /\ apc = "Idle"
    /\ acall = NoAccelerate
    /\ gen = NotStarted
    /\ naccelerate = 0

Init == DecksConstructed /\ ShipConstructed("RedisShip", 100, 10)

\* a ship of either class that takes cargo
InitShip == DecksConstructed /\ \E c \in ShipClasses : ShipConstructed(c, 100, 10)

\* a ship of either class that accelerates
InitAccelerate ==
    DecksConstructed /\ \E c \in ShipClasses, f \in FuelLevels, g \in Gravities : ShipConstructed(c, f, g)

(***************************************************************************)
(* stored_mass and capacity_mass of HashDeck and JsonDeck                  *)
(***************************************************************************)
\* float(stored_mass) if stored_mass else 0
stored_mass(d) == IF DeckClass(d) = "HashDeck" THEN stored_mass_key[d] ELSE deck_json[d].mass

\* a capacity that does not count what the deck holds
capacity_mass_of_empty_deck(d) == max_storage_kg

capacity_mass(d) == max_storage_kg - stored_mass(d)

(***************************************************************************)
(* The commands store() queues between MULTI and EXEC, as the values the  *)
(* keys have after EXEC ran them in order.                                 *)
(***************************************************************************)
RECURSIVE ContainedIndex(_, _, _)
\* p.zadd(container_key, {contained_obj.name: contained_obj.mass}) for each contained object
ContainedIndex(zset, objs, names) ==
    IF names = {} THEN zset
    ELSE LET n == CHOOSE x \in names : TRUE
         IN  ContainedIndex(ZADD(zset, objs[n].name, objs[n].mass.v), objs, names \ {n})

RECURSIVE ContainedHashes(_, _, _, _)
\* p.hset(container_item_key, mapping=item_schema.dump(contained_obj)) for each contained object
ContainedHashes(hashes, cname, objs, names) ==
    IF names = {} THEN hashes
    ELSE LET n == CHOOSE x \in names : TRUE
         IN  ContainedHashes(HSET(hashes, container_item(cname, objs[n].name), HashDump(objs[n])),
                             cname, objs, names \ {n})

\* hasattr(obj, 'objects')
Contained(o) == IF o.type = "vehicle" THEN o.objects ELSE EmptyDict

\* keys.container_items_set(obj.name) after HashDeck.store's EXEC
HashDeck_store_container_items(o) ==
    IF DOMAIN Contained(o) = {} THEN container_items_set
    ELSE LET old == IF o.name \in DOMAIN container_items_set THEN container_items_set[o.name] ELSE EmptyDict
             new == ContainedIndex(old, Contained(o), DOMAIN Contained(o))
         IN  [c \in DOMAIN container_items_set \cup {o.name} |-> IF c = o.name THEN new ELSE container_items_set[c]]

\* the hashes after HashDeck.store's EXEC: the contained objects first, then the item
HashDeck_store_hashes(d, o) ==
    HSET(ContainedHashes(item_hashes, o.name, Contained(o), DOMAIN Contained(o)),
         deck_item(d, o.name), HashDump(o))

\* an increment by the mass of the container alone, without what it holds
HashDeck_store_incrby_base_mass(d, o) ==
    stored_mass_key[d] + (IF o.type = "vehicle" THEN o.base_mass.v ELSE o.mass.v)

\* p.incrby(deck_mass_key, obj.mass): Redis rejects the command when the
\* amount is not an integer, after the commands before it have run
HashDeck_store_incrby(d, o) ==
    IF INCRBY_accepts(mass(o)) THEN stored_mass_key[d] + mass(o).v ELSE stored_mass_key[d]

\* the keys after HashDeck.store's MULTI ... EXEC
HashDeck_store_exec(d, o) ==
    /\ container_items_set' = HashDeck_store_container_items(o)
    /\ item_hashes' = HashDeck_store_hashes(d, o)
    /\ deck_items_set' = [deck_items_set EXCEPT ![d] = ZADD(@, o.name, mass(o).v)]
    /\ stored_mass_key' = [stored_mass_key EXCEPT ![d] = HashDeck_store_incrby(d, o)]
    /\ UNCHANGED deck_json

\* the key after JsonDeck.store's MULTI ... EXEC
JsonDeck_store_exec(d, o) ==
    /\ deck_json' = [deck_json EXCEPT ![d] =
            [mass |-> @.mass + mass(o).v,
             objects |-> [n \in DOMAIN @.objects \cup {o.name} |->
                            IF n = o.name THEN JsonDump(o) ELSE @.objects[n]]]]
    /\ UNCHANGED <<stored_mass_key, deck_items_set, item_hashes, container_items_set>>

\* EXEC modified the key the deck's store() calls WATCH:
\* deck_items_key for HashDeck.store, deck_key for JsonDeck.store
WatchedKeyModified(d, o) ==
    IF DeckClass(d) = "HashDeck" THEN ZADD_modifies(deck_items_set[d], o.name, mass(o).v) ELSE TRUE

\* how the call ends once EXEC has run
ExecOutcome(d, o) ==
    IF DeckClass(d) = "HashDeck" /\ ~INCRBY_accepts(mass(o)) THEN "ResponseError" ELSE "ok"

(***************************************************************************)
(* get()                                                                   *)
(***************************************************************************)
\* the contained objects loaded from their hashes, under their names
AttachContained(top, loaded) ==
    IF \E n \in DOMAIN loaded : loaded[n].error # "none"
    THEN Raised(loaded[CHOOSE n \in DOMAIN loaded : loaded[n].error # "none"].error)
    ELSE Loaded([top EXCEPT !.objects =
            [k \in {loaded[n].obj.name : n \in DOMAIN loaded} |->
                loaded[CHOOSE n \in DOMAIN loaded : loaded[n].obj.name = k].obj]])

\* HashDeck.get(name)
HashDeck_get(d, name) ==
    LET top == load_object(HGETALL(item_hashes, deck_item(d, name)))
    IN  IF top.error # "none" \/ top.obj.type # "vehicle" THEN top
        ELSE LET cname == top.obj.name
                 container_object_names ==
                    IF cname \in DOMAIN container_items_set THEN DOMAIN container_items_set[cname] ELSE {}
                 hashes == [n \in container_object_names |->
                                load_object(HGETALL(item_hashes, container_item(cname, n)))]
             IN  AttachContained(top.obj, hashes)

\* JsonDeck.get(name): JSON.GET of a path that does not exist is an error reply
JsonDeck_get(d, name) ==
    IF name \notin DOMAIN deck_json[d].objects THEN Raised("ResponseError")
    ELSE LET json == deck_json[d].objects[name]
             top == load_object(json)
         IN  IF top.error # "none" \/ top.obj.type # "vehicle" THEN top
             ELSE AttachContained(top.obj, [n \in DOMAIN json.objects |-> load_object(json.objects[n])])

get(d, name) == IF DeckClass(d) = "HashDeck" THEN HashDeck_get(d, name) ELSE JsonDeck_get(d, name)


(***************************************************************************)
(* items(): both decks build their key with a call of the key function    *)
(* that passes no deck name.                                               *)
(***************************************************************************)
\* a function of keys.py that takes one positional argument, called with args
keys_call(args) ==
    IF Len(args) = 1 THEN [error |-> "none", key |-> args[1]]
    ELSE [error |-> "TypeError", key |-> "none"]

\* HashDeck.items(): SMEMBERS of keys.deck_items_set(); the key store() writes
\* is a sorted set (WRONGTYPE); the GETs are not queued on p, so p.execute()
\* returns no hash
HashDeck_items(d) ==
    LET k == keys_call(<< >>)
    IN  IF k.error # "none" THEN Raised(k.error)
        ELSE IF deck_items_set[k.key] # EmptyDict THEN Raised("ResponseError")
        ELSE Loaded({})

\* JsonDeck.items(): JSON.GET .objects of keys.deck_json(), each loaded
JsonDeck_items(d) ==
    LET k == keys_call(<< >>)
    IN  IF k.error # "none" THEN Raised(k.error)
        ELSE LET objects == deck_json[k.key].objects
                 loaded == [n \in DOMAIN objects |-> JsonDeck_get(k.key, n)]
             IN  IF \E n \in DOMAIN loaded : loaded[n].error # "none"
                 THEN Raised(loaded[CHOOSE n \in DOMAIN loaded : loaded[n].error # "none"].error)
                 ELSE Loaded({loaded[n].obj : n \in DOMAIN loaded})

items(d) == IF DeckClass(d) = "HashDeck" THEN HashDeck_items(d) ELSE JsonDeck_items(d)

(***************************************************************************)
(* store(): redis.transaction(_store, key) is                             *)
(*   while True: WATCH key; _store(pipe); EXEC; on WatchError, again      *)
(***************************************************************************)
NoCall == [deck |-> "none", obj |-> NoObject]

\* the names passed to the store() calls made on deck d so far
Called(d) == {r.obj.name : r \in {x \in returned : x.deck = d}}
                \cup {call[u].obj.name : u \in {x \in Writers : pc[x] # "idle" /\ call[x].deck = d}}

Return(w, res) ==
    /\ pc' = [pc EXCEPT ![w] = "idle"]
    /\ call' = [call EXCEPT ![w] = NoCall]
    /\ returned' = returned \cup {[deck |-> call[w].deck, obj |-> call[w].obj, result |-> res]}

\* a modification that reaches the connections that WATCH the key of any deck
Invalidate_every_deck(w, d, modified) ==
    dirty' = [u \in Writers |->
                IF u # w /\ pc[u] \in {"watched", "queued"}
                THEN dirty[u] \/ modified
                ELSE dirty[u]]

\* the connections that WATCH the key of deck d learn that it was modified
Invalidate(w, d, modified) ==
    dirty' = [u \in Writers |->
                IF u # w /\ pc[u] \in {"watched", "queued"} /\ call[u].deck = d
                THEN dirty[u] \/ modified
                ELSE dirty[u]]

\* the burn steps the generator of the accelerate() call has yielded
StepsDrawn == gen.i + (IF gen.final THEN 1 ELSE 0)

\* a store of o on deck d ended
Stored(d, o, res) ==
    /\ last_stored' = IF res # "ok" THEN last_stored
                      ELSE [last_stored EXCEPT ![d] =
                               [n \in DOMAIN @ \cup {o.name} |-> IF n = o.name THEN o ELSE @[n]]]
    /\ stored_at_step' = IF apc = "Drawing" THEN StepsDrawn ELSE -1

\* a writer calls deck.store(obj): the first WATCH
transaction(w, d, o) ==
    /\ pc[w] = "idle"
    /\ pc' = [pc EXCEPT ![w] = "watched"]
    /\ call' = [call EXCEPT ![w] = [deck |-> d, obj |-> o]]
    /\ dirty' = [dirty EXCEPT ![w] = FALSE]
    /\ retries' = [retries EXCEPT ![w] = 0]
    /\ ncalls' = ncalls + 1
    /\ repeated' = [repeated EXCEPT ![d] = @ \/ o.name \in Called(d)]
    /\ UNCHANGED <<redis, returned, last_stored, contained_left, checked, stored_at_step, ship>>

store(w, d, o) == ncalls < MaxCalls /\ transaction(w, d, o)

store_contended(w, d, o) == ncalls < MaxContendedCalls /\ transaction(w, d, o)

\* WATCH again after a WatchError
watch(w) ==
    /\ pc[w] = "retry"
    /\ pc' = [pc EXCEPT ![w] = "watched"]
    /\ dirty' = [dirty EXCEPT ![w] = FALSE]
    /\ UNCHANGED <<redis, call, retries, ncalls, returned, repeated, last_stored, contained_left, checked, stored_at_step, ship>>

\* _store(p) with a capacity check that also refuses the object that fills the deck
_store_below_capacity(w) ==
    /\ pc[w] = "watched"
    /\ IF mass(call[w].obj).v >= capacity_mass(call[w].deck)
       THEN /\ Return(w, "NoCapacityError")
            /\ UNCHANGED checked
       ELSE /\ pc' = [pc EXCEPT ![w] = "queued"]
            /\ checked' = [checked EXCEPT ![w] = stored_mass(call[w].deck)]
            /\ UNCHANGED <<call, returned>>
    /\ UNCHANGED <<redis, dirty, retries, ncalls, repeated, last_stored, contained_left, stored_at_step, ship>>

\* _store(p) in a transaction() that starts again on the capacity error
_store_retried(w) ==
    /\ pc[w] = "watched"
    /\ IF mass(call[w].obj).v > capacity_mass(call[w].deck)
       THEN /\ pc' = [pc EXCEPT ![w] = "retry"]
            /\ UNCHANGED <<checked, call, returned>>
       ELSE /\ pc' = [pc EXCEPT ![w] = "queued"]
            /\ checked' = [checked EXCEPT ![w] = stored_mass(call[w].deck)]
            /\ UNCHANGED <<call, returned>>
    /\ UNCHANGED <<redis, dirty, retries, ncalls, repeated, last_stored, contained_left, stored_at_step, ship>>

\* _store(p): the capacity check, then the commands are queued
_store(w) ==
    /\ pc[w] = "watched"
    /\ IF mass(call[w].obj).v > capacity_mass(call[w].deck)
       THEN /\ Return(w, "NoCapacityError")
            /\ UNCHANGED checked
       ELSE /\ pc' = [pc EXCEPT ![w] = "queued"]
            /\ checked' = [checked EXCEPT ![w] = stored_mass(call[w].deck)]
            /\ UNCHANGED <<call, returned>>
    /\ UNCHANGED <<redis, dirty, retries, ncalls, repeated, last_stored, contained_left, stored_at_step, ship>>

\* EXEC answers nil, redis-py raises WatchError, transaction() starts again
WatchError(w) ==
    /\ pc' = [pc EXCEPT ![w] = "retry"]
    /\ retries' = [retries EXCEPT ![w] = @ + 1]
    /\ checked' = [checked EXCEPT ![w] = 0]
    /\ UNCHANGED <<redis, call, dirty, ncalls, returned, repeated, last_stored, contained_left, stored_at_step, ship>>

\* EXEC runs the queued commands and the call returns
ExecCommands(w) ==
    LET d == call[w].deck
        o == call[w].obj
    IN  /\ IF DeckClass(d) = "HashDeck" THEN HashDeck_store_exec(d, o) ELSE JsonDeck_store_exec(d, o)
        /\ Invalidate(w, d, WatchedKeyModified(d, o))
        /\ Return(w, ExecOutcome(d, o))
        /\ Stored(d, o, ExecOutcome(d, o))
        /\ checked' = [checked EXCEPT ![w] = 0]
        /\ UNCHANGED <<retries, ncalls, repeated, contained_left, ship>>

\* execute() of a transaction() that gives up after three retries
execute_bounded(w) ==
    /\ pc[w] = "queued"
    /\ IF ~dirty[w] THEN ExecCommands(w)
       ELSE IF retries[w] < 3 THEN WatchError(w)
       ELSE /\ Return(w, "Busy")
            /\ retries' = [retries EXCEPT ![w] = @ + 1]
            /\ checked' = [checked EXCEPT ![w] = 0]
            /\ UNCHANGED <<redis, dirty, ncalls, repeated, last_stored, contained_left, stored_at_step, ship>>

\* pipe.execute(): WatchError when the watched key was modified since WATCH
execute(w) ==
    /\ pc[w] = "queued"
    /\ IF dirty[w] THEN WatchError(w) ELSE ExecCommands(w)

(***************************************************************************)
(* HashDeck.store_non_atomic and JsonDeck.store_containers_non_atomic:    *)
(* the capacity check, then one Redis command after the other.  For an    *)
(* object that contains nothing, HashDeck.store_non_atomic sends the      *)
(* commands of HashDeck.store_non_container.                              *)
(***************************************************************************)
\* the call, its capacity check, and where it goes from there
store_non_atomic(w, d, o) ==
    /\ pc[w] = "idle"
    /\ ncalls < MaxCalls
    /\ ncalls' = ncalls + 1
    /\ repeated' = [repeated EXCEPT ![d] = @ \/ o.name \in Called(d)]
    /\ retries' = [retries EXCEPT ![w] = 0]
    /\ IF mass(o).v > capacity_mass(d)
       THEN /\ returned' = returned \cup {[deck |-> d, obj |-> o, result |-> "NoCapacityError"]}
            /\ UNCHANGED <<pc, call, contained_left, checked>>
       ELSE /\ call' = [call EXCEPT ![w] = [deck |-> d, obj |-> o]]
            /\ checked' = [checked EXCEPT ![w] = stored_mass(d)]
            /\ contained_left' = [contained_left EXCEPT ![w] =
                    IF DeckClass(d) = "HashDeck" THEN DOMAIN Contained(o) ELSE {}]
            /\ pc' = [pc EXCEPT ![w] =
                    IF DeckClass(d) = "JsonDeck" THEN "jsonset"
                    ELSE IF DOMAIN Contained(o) = {} THEN "zadd" ELSE "contained_zadd"]
            /\ UNCHANGED returned
    /\ UNCHANGED <<redis, dirty, last_stored, stored_at_step, ship>>

\* the contained object the loop over objects.values() is at
NextContained(w) == CHOOSE n \in contained_left[w] : TRUE

\* self.redis.zadd(container_key, {contained_obj.name: contained_obj.mass})
store_non_atomic_contained_zadd(w) ==
    /\ pc[w] = "contained_zadd"
    /\ LET o == call[w].obj
           c == o.objects[NextContained(w)]
           old == IF o.name \in DOMAIN container_items_set THEN container_items_set[o.name] ELSE EmptyDict
       IN  container_items_set' = [k \in DOMAIN container_items_set \cup {o.name} |->
                IF k = o.name THEN ZADD(old, c.name, c.mass.v) ELSE container_items_set[k]]
    /\ pc' = [pc EXCEPT ![w] = "contained_hset"]
    /\ UNCHANGED <<stored_mass_key, deck_items_set, item_hashes, deck_json, call, dirty,
                   retries, ncalls, returned, repeated, last_stored, contained_left, checked, stored_at_step, ship>>

\* self.redis.hset(container_item_key, mapping=item_schema.dump(contained_obj))
store_non_atomic_contained_hset(w) ==
    /\ pc[w] = "contained_hset"
    /\ LET o == call[w].obj
           c == o.objects[NextContained(w)]
       IN  item_hashes' = HSET(item_hashes, container_item(o.name, c.name), HashDump(c))
    /\ contained_left' = [contained_left EXCEPT ![w] = @ \ {NextContained(w)}]
    /\ pc' = [pc EXCEPT ![w] = IF contained_left'[w] = {} THEN "zadd" ELSE "contained_zadd"]
    /\ UNCHANGED <<stored_mass_key, deck_items_set, container_items_set, deck_json, call, dirty,
                   retries, ncalls, returned, repeated, last_stored, checked, stored_at_step, ship>>

\* self.redis.zadd(deck_items_key, {obj.name: obj.mass})
store_non_atomic_zadd(w) ==
    /\ pc[w] = "zadd"
    /\ LET d == call[w].deck
           o == call[w].obj
       IN  /\ deck_items_set' = [deck_items_set EXCEPT ![d] = ZADD(@, o.name, mass(o).v)]
           /\ Invalidate(w, d, ZADD_modifies(deck_items_set[d], o.name, mass(o).v))
    /\ pc' = [pc EXCEPT ![w] = "hset"]
    /\ UNCHANGED <<stored_mass_key, item_hashes, container_items_set, deck_json, call,
                   retries, ncalls, returned, repeated, last_stored, contained_left, checked, stored_at_step, ship>>

\* self.redis.hset(item_key, mapping=object_dict)
store_non_atomic_hset(w) ==
    /\ pc[w] = "hset"
    /\ item_hashes' = HSET(item_hashes, deck_item(call[w].deck, call[w].obj.name), HashDump(call[w].obj))
    /\ pc' = [pc EXCEPT ![w] = "incrby"]
    /\ UNCHANGED <<stored_mass_key, deck_items_set, container_items_set, deck_json, call, dirty,
                   retries, ncalls, returned, repeated, last_stored, contained_left, checked, stored_at_step, ship>>

\* self.redis.incrby(deck_mass_key, obj.mass), and the call returns
store_non_atomic_incrby(w) ==
    /\ pc[w] = "incrby"
    /\ LET d == call[w].deck
           o == call[w].obj
       IN  /\ stored_mass_key' = [stored_mass_key EXCEPT ![d] = HashDeck_store_incrby(d, o)]
           /\ Return(w, ExecOutcome(d, o))
           /\ Stored(d, o, ExecOutcome(d, o))
    /\ UNCHANGED <<deck_items_set, item_hashes, container_items_set, deck_json, dirty,
                   retries, ncalls, repeated, contained_left, checked, ship>>

\* self.redis.jsonset(deck_key, f'.objects.{obj.name}', object_dict)
store_containers_non_atomic_jsonset(w) ==
    /\ pc[w] = "jsonset"
    /\ LET d == call[w].deck
           o == call[w].obj
       IN  /\ deck_json' = [deck_json EXCEPT ![d].objects =
                    [n \in DOMAIN @ \cup {o.name} |-> IF n = o.name THEN JsonDump(o) ELSE @[n]]]
           /\ Invalidate(w, d, TRUE)
    /\ pc' = [pc EXCEPT ![w] = "jsonnumincrby"]
    /\ UNCHANGED <<stored_mass_key, deck_items_set, item_hashes, container_items_set, call,
                   retries, ncalls, returned, repeated, last_stored, contained_left, checked, stored_at_step, ship>>

\* self.redis.jsonnumincrby(deck_key, '.mass', obj.mass), and the call returns
store_containers_non_atomic_jsonnumincrby(w) ==
    /\ pc[w] = "jsonnumincrby"
    /\ LET d == call[w].deck
           o == call[w].obj
       IN  /\ deck_json' = [deck_json EXCEPT ![d].mass = @ + mass(o).v]
           /\ Invalidate(w, d, TRUE)
           /\ Return(w, "ok")
           /\ Stored(d, o, "ok")
    /\ UNCHANGED <<stored_mass_key, deck_items_set, item_hashes, container_items_set,
                   retries, ncalls, repeated, contained_left, checked, ship>>

Next ==
    \/ \E w \in Writers, d \in Decks, o \in Cargo : store(w, d, o)
    \/ \E w \in Writers : watch(w)
    \/ \E w \in Writers : _store(w)
    \/ \E w \in Writers : execute(w)

Spec == Init /\ [][Next]_vars

\* every writer is a client of its own: a call that was made goes on to its
\* next WATCH, its next _store(p) and its next EXEC, and Redis answers each
Fairness ==
    \A w \in Writers : WF_vars(watch(w)) /\ WF_vars(_store(w)) /\ WF_vars(execute(w))

SpecFair == Spec /\ Fairness

\* the same writers, storing objects whose keys meet
NextKeys ==
    \/ \E w \in Writers, d \in Decks, o \in KeysCargo : store(w, d, o)
    \/ \E w \in Writers : watch(w)
    \/ \E w \in Writers : _store(w)
    \/ \E w \in Writers : execute(w)

SpecKeys == Init /\ [][NextKeys]_vars

\* the objects stored on two HashDecks of the one Redis
DecksCargo == {bob, roverB, roverA}

\* the same writers, storing on the two HashDecks
NextDecks ==
    \/ \E w \in Writers, d \in HashDecks, o \in DecksCargo : store(w, d, o)
    \/ \E w \in Writers : watch(w)
    \/ \E w \in Writers : _store(w)
    \/ \E w \in Writers : execute(w)

SpecDecks == Init /\ [][NextDecks]_vars

\* the same writers, making more calls with fewer objects
NextContended ==
    \/ \E w \in Writers, d \in Decks, o \in ContendedCargo : store_contended(w, d, o)
    \/ \E w \in Writers : watch(w)
    \/ \E w \in Writers : _store(w)
    \/ \E w \in Writers : execute(w)

SpecContended == Init /\ [][NextContended]_vars

\* writers that call the variants of store() without a transaction
NextNonAtomic ==
    \/ \E w \in Writers, d \in Decks, o \in Cargo : store_non_atomic(w, d, o)
    \/ \E w \in Writers : store_non_atomic_contained_zadd(w)
    \/ \E w \in Writers : store_non_atomic_contained_hset(w)
    \/ \E w \in Writers : store_non_atomic_zadd(w)
    \/ \E w \in Writers : store_non_atomic_hset(w)
    \/ \E w \in Writers : store_non_atomic_incrby(w)
    \/ \E w \in Writers : store_containers_non_atomic_jsonset(w)
    \/ \E w \in Writers : store_containers_non_atomic_jsonnumincrby(w)

SpecNonAtomic == Init /\ [][NextNonAtomic]_vars


(***************************************************************************)
(* python.py: DictDeck and ListEventLog.                                   *)
(***************************************************************************)
RECURSIVE SumStorage(_)
\* sum([obj.mass for obj in self.data['objects'].values()])
SumStorage(names) ==
    IF names = {} THEN 0
    ELSE LET n == CHOOSE x \in names : TRUE
         IN  SumStorage(names \ {n}) + mass(storage[n]).v

DictDeck_stored_mass == SumStorage(DOMAIN storage)

DictDeck_capacity_mass == max_storage_kg - DictDeck_stored_mass

\* a DictDeck.store(object) that logs the store as an event of the ship
DictDeck_store_logged(o) ==
    /\ ship_class = "DictShip"
    /\ apc \notin {"weighed", "Drawing"}
    /\ ncalls' = ncalls + 1
    /\ events' = Append(events, [timestamp |-> MaxTime, data |-> [fuel_burned |-> [n |-> 0, d |-> 1],
                                                                   next_burn |-> [n |-> 0, d |-> 1]]])
    /\ IF mass(o).v > DictDeck_capacity_mass
       THEN /\ returned' = returned \cup {[deck |-> "main", obj |-> o, result |-> "NoCapacityError"]}
            /\ dict_call' = [obj |-> o, result |-> "NoCapacityError"]
            /\ UNCHANGED storage
       ELSE /\ storage' = [n \in DOMAIN storage \cup {o.name} |-> IF n = o.name THEN o ELSE storage[n]]
            /\ returned' = returned \cup {[deck |-> "main", obj |-> o, result |-> "ok"]}
            /\ dict_call' = [obj |-> o, result |-> "ok"]
    /\ UNCHANGED <<redis, pc, call, dirty, retries, repeated, last_stored, contained_left, checked, stored_at_step>>
    /\ UNCHANGED <<ship_class, current_fuel, current_gravity, speed_kmh, added, now, apc, acall, gen, naccelerate>>

\* DictDeck.store(object), called by the thread that also calls accelerate()
DictDeck_store(o) ==
    /\ ship_class = "DictShip"
    /\ apc \notin {"weighed", "Drawing"}
    /\ ncalls' = ncalls + 1
    /\ IF mass(o).v > DictDeck_capacity_mass
       THEN /\ returned' = returned \cup {[deck |-> "main", obj |-> o, result |-> "NoCapacityError"]}
            /\ dict_call' = [obj |-> o, result |-> "NoCapacityError"]
            /\ UNCHANGED storage
       ELSE /\ storage' = [n \in DOMAIN storage \cup {o.name} |-> IF n = o.name THEN o ELSE storage[n]]
            /\ returned' = returned \cup {[deck |-> "main", obj |-> o, result |-> "ok"]}
            /\ dict_call' = [obj |-> o, result |-> "ok"]
    /\ UNCHANGED <<redis, pc, call, dirty, retries, repeated, last_stored, contained_left, checked, stored_at_step>>
    /\ UNCHANGED <<ship_class, current_fuel, current_gravity, speed_kmh, events, added, now, apc, acall, gen, naccelerate>>

\* x < y of two Events (dataclass(order=True)): the tuples (timestamp, data)
\* are compared; with equal timestamps and unequal data, dict < dict raises
EventLess(x, y) ==
    IF x.timestamp # y.timestamp THEN (IF x.timestamp < y.timestamp THEN "True" ELSE "False")
    ELSE IF x.data = y.data THEN "False"
    ELSE "TypeError"

RECURSIVE bisect_right(_, _, _, _)
\* bisect.bisect_right(a, x, lo, hi); a[mid] of Python is a[mid + 1] here
bisect_right(a, x, lo, hi) ==
    IF lo >= hi THEN [error |-> "none", index |-> lo]
    ELSE LET mid == (lo + hi) \div 2
             less == EventLess(x, a[mid + 1])
         IN  IF less = "TypeError" THEN [error |-> "TypeError", index |-> 0]
             ELSE IF less = "True" THEN bisect_right(a, x, lo, mid)
             ELSE bisect_right(a, x, mid + 1, hi)

\* bisect.insort(a, x)
insort(a, x) ==
    LET at == bisect_right(a, x, 0, Len(a))
    IN  IF at.error # "none" THEN [error |-> at.error, events |-> a]
        ELSE [error |-> "none",
              events |-> SubSeq(a, 1, at.index) \o <<x>> \o SubSeq(a, at.index + 1, Len(a))]

\* the data of the burn events: a whole second, half a second, a quarter
EventData ==
    {[fuel_burned |-> RatInt(FUEL_BURNED_PER_SECOND), next_burn |-> RatInt(FUEL_BURNED_PER_SECOND)],
     [fuel_burned |-> RatInt(1), next_burn |-> RatInt(0)],
     [fuel_burned |-> Rat(1, 2), next_burn |-> RatInt(0)]}

\* ListEventLog.add(event), called directly
add(event) ==
    /\ Len(added) < MaxEvents
    /\ added' = Append(added, [event |-> event, error |-> insort(events, event).error])
    /\ events' = insort(events, event).events
    /\ UNCHANGED <<redis, writers, ship_class, storage, dict_call, current_fuel, current_gravity,
                   speed_kmh, now, apc, acall, gen, naccelerate>>

\* an event log that takes events with any timestamps
NextEventLog == \E t \in 0..MaxTime, data \in EventData : add(Event(t, data))

SpecEventLog == Init /\ [][NextEventLog]_vars

(***************************************************************************)
(* protocols.py: Ship, and the thrusters of python.py and redis.py.       *)
(***************************************************************************)
RECURSIVE SumStoredMass(_)
\* sum(deck.stored_mass for deck in self.decks.values()) of a RedisShip
SumStoredMass(ds) ==
    IF ds = {} THEN 0
    ELSE LET d == CHOOSE x \in ds : TRUE
         IN  SumStoredMass(ds \ {d}) + stored_mass(d)

\* Ship.mass
Ship_mass == base_mass + (IF ship_class = "DictShip" THEN DictDeck_stored_mass ELSE SumStoredMass(Decks))

\* Ship.weight_kg
weight_kg == Ship_mass * current_gravity

RECURSIVE SumFuelBurned(_)
\* sum([l.data['fuel_burned'] for l in self.event_log.events ...])
SumFuelBurned(evts) ==
    IF evts = << >> THEN RatInt(0)
    ELSE RatAdd(Head(evts).data.fuel_burned, SumFuelBurned(Tail(evts)))

\* DictShip.fuel / RedisShip.fuel, with the event log evts
fuel(evts) ==
    IF ship_class = "DictShip" THEN RatSub(RatInt(current_fuel), SumFuelBurned(evts))
    ELSE RatInt(current_fuel)

\* fire(): the statements before the loop divide by the acceleration
fire_raises(a) == THRUST_PER_SECOND_NEWTONS - a.ship_weight_kg = 0

\* fire(): the frame when the statements before the loop have run
fire_begin(a) ==
    LET resultant_force == THRUST_PER_SECOND_NEWTONS - a.ship_weight_kg
        acceleration_per_second_ms == Rat(resultant_force, a.ship_mass)
        acceleration_per_second_kmh == RatMul(acceleration_per_second_ms, Rat(18, 5))
        m == modf(RatDiv(RatInt(a.target_velocity.speed_kmh), acceleration_per_second_kmh))
    IN  [started |-> TRUE, acceleration_per_second_kmh |-> acceleration_per_second_kmh,
         remainder |-> m.remainder, target_burn |-> m.seconds_to_burn, i |-> 0, final |-> FALSE]

\* fire() with a generator that computes the acceleration anew, from the ship's
\* weight and mass of the moment, each time it is resumed
fire_resume_reweighed(g) ==
    LET h == IF ~g.started THEN g
             ELSE [fire_begin([acall EXCEPT !.ship_weight_kg = weight_kg, !.ship_mass = Ship_mass])
                        EXCEPT !.i = g.i, !.final = g.final]
    IN  IF h.i < h.target_burn
        THEN [stop |-> FALSE,
              added |-> h.acceleration_per_second_kmh,
              fuel_burned |-> RatInt(FUEL_BURNED_PER_SECOND),
              next_burn |-> RatInt(FUEL_BURNED_PER_SECOND),
              frame |-> [h EXCEPT !.i = @ + 1]]
        ELSE IF ~h.final /\ h.remainder.n # 0
        THEN [stop |-> FALSE,
              added |-> RatMul(h.acceleration_per_second_kmh, h.remainder),
              fuel_burned |-> RatMul(RatInt(FUEL_BURNED_PER_SECOND), h.remainder),
              next_burn |-> RatInt(0),
              frame |-> [h EXCEPT !.final = TRUE]]
        ELSE [stop |-> TRUE, added |-> RatInt(0), fuel_burned |-> RatInt(0), next_burn |-> RatInt(0), frame |-> h]

\* fire() with whole-second steps that yield before they add to the speed cell
\* and add when they are resumed
fire_resume_yield_first(g) ==
    IF g.i < g.target_burn
    THEN [stop |-> FALSE,
          added |-> IF g.i = 0 THEN RatInt(0) ELSE g.acceleration_per_second_kmh,
          fuel_burned |-> RatInt(FUEL_BURNED_PER_SECOND),
          next_burn |-> RatInt(FUEL_BURNED_PER_SECOND),
          frame |-> [g EXCEPT !.i = @ + 1]]
    ELSE IF ~g.final /\ g.remainder.n # 0
    THEN [stop |-> FALSE,
          added |-> RatAdd(IF g.i = 0 THEN RatInt(0) ELSE g.acceleration_per_second_kmh,
                           RatMul(g.acceleration_per_second_kmh, g.remainder)),
          fuel_burned |-> RatMul(RatInt(FUEL_BURNED_PER_SECOND), g.remainder),
          next_burn |-> RatInt(0),
          frame |-> [g EXCEPT !.final = TRUE]]
    ELSE [stop |-> TRUE, added |-> RatInt(0), fuel_burned |-> RatInt(0), next_burn |-> RatInt(0), frame |-> g]

\* fire(): from frame g to the next yield, or to the end of the generator
fire_resume(g) ==
    IF g.i < g.target_burn
    THEN [stop |-> FALSE,
          added |-> g.acceleration_per_second_kmh,
          fuel_burned |-> RatInt(FUEL_BURNED_PER_SECOND),
          next_burn |-> IF g.i < g.target_burn THEN RatInt(FUEL_BURNED_PER_SECOND) ELSE g.remainder,
          frame |-> [g EXCEPT !.i = @ + 1]]
    ELSE IF ~g.final /\ g.remainder.n # 0
    THEN [stop |-> FALSE,
          added |-> RatMul(g.acceleration_per_second_kmh, g.remainder),
          fuel_burned |-> RatMul(RatInt(FUEL_BURNED_PER_SECOND), g.remainder),
          next_burn |-> RatInt(0),
          frame |-> [g EXCEPT !.final = TRUE]]
    ELSE [stop |-> TRUE, added |-> RatInt(0), fuel_burned |-> RatInt(0), next_burn |-> RatInt(0), frame |-> g]

\* ship.accelerate(target_velocity): self.weight_kg is evaluated
accelerate(v) ==
    /\ apc \notin {"weighed", "Drawing"}
    /\ naccelerate < MaxAccelerateCalls
    /\ naccelerate' = naccelerate + 1
    /\ apc' = "weighed"
    /\ acall' = [target_velocity |-> v, ship_weight_kg |-> weight_kg, ship_mass |-> 0,
                 fuel_before |-> fuel(events), speed_before |-> speed_kmh[v.direction], logged |-> << >>]
    /\ gen' = NotStarted
    /\ UNCHANGED <<redis, writers, ship_class, storage, dict_call, current_fuel, current_gravity, speed_kmh, events, added, now>>

\* self.mass is evaluated and self.thruster.fire(...) returns the generator
thruster_fire ==
    /\ apc = "weighed"
    /\ apc' = "Drawing"
    /\ acall' = [acall EXCEPT !.ship_mass = Ship_mass]
    /\ UNCHANGED <<redis, writers, ship_class, storage, dict_call, current_fuel, current_gravity, speed_kmh, events, added, now, gen, naccelerate>>

\* one round of the for loop of accelerate(): next() of the generator, and for
\* what it yields event_log.add() and the low-fuel check
accelerate_next ==
    /\ apc = "Drawing"
    /\ IF ~gen.started /\ fire_raises(acall)
       THEN /\ apc' = "ZeroDivisionError"
            /\ UNCHANGED <<speed_kmh, events, added, acall, gen>>
       ELSE LET g == IF gen.started THEN gen ELSE fire_begin(acall)
                y == fire_resume(g)
                data == [fuel_burned |-> y.fuel_burned, next_burn |-> y.next_burn]
                sorted == insort(events, Event(now, data))
            IN  /\ gen' = y.frame
                /\ IF y.stop
                   THEN /\ apc' = "Exhausted"
                        /\ UNCHANGED <<speed_kmh, events, added, acall>>
                   ELSE /\ speed_kmh' = [speed_kmh EXCEPT ![acall.target_velocity.direction] = RatAdd(@, y.added)]
                        /\ added' = Append(added, [event |-> Event(now, data), error |-> sorted.error])
                        /\ events' = sorted.events
                        /\ IF sorted.error # "none"
                           THEN /\ apc' = sorted.error
                                /\ UNCHANGED acall
                           ELSE /\ acall' = [acall EXCEPT !.logged = Append(@, data)]
                                /\ apc' = IF RatLess(RatSub(fuel(sorted.events), RatInt(low_fuel_threshold)), y.next_burn)
                                          THEN "Cancelled" ELSE "Drawing"
    /\ UNCHANGED <<redis, writers, ship_class, storage, dict_call, current_fuel, current_gravity, now, naccelerate>>

\* the clock advances
tick ==
    /\ now < MaxTime
    /\ now' = now + 1
    /\ UNCHANGED <<redis, writers, ship_class, storage, dict_call, current_fuel, current_gravity, speed_kmh, events, added, apc, acall, gen, naccelerate>>

\* ship.store('main', obj) of a DictShip
DictShip_store(o) == ncalls < MaxCalls /\ DictDeck_store(o)

\* ship.store(deck_name, obj) of a RedisShip
RedisShip_store(w, d, o) == ship_class = "RedisShip" /\ store(w, d, o)

\* the same of a ship that accelerates
DictShip_load(o) == ncalls < MaxShipStores /\ DictDeck_store(o)

RedisShip_load(w, d, o) == ship_class = "RedisShip" /\ ncalls < MaxShipStores /\ transaction(w, d, o)

\* ships that take cargo
NextShip ==
    \/ \E o \in ShipCargo : DictShip_store(o)
    \/ \E w \in Writers, d \in Decks, o \in ShipCargo : RedisShip_store(w, d, o)
    \/ \E w \in Writers : watch(w)
    \/ \E w \in Writers : _store(w)
    \/ \E w \in Writers : execute(w)

SpecShip == InitShip /\ [][NextShip]_vars

\* ships that take cargo and accelerate
NextAccelerate ==
    \/ \E o \in AccelerateCargo : DictShip_load(o)
    \/ \E w \in Writers, d \in Decks, o \in AccelerateCargo : RedisShip_load(w, d, o)
    \/ \E w \in Writers : _store(w)
    \/ \E w \in Writers : execute(w)
    \/ \E s \in TargetSpeeds, d \in Direction : accelerate(Velocity(s, d))
    \/ thruster_fire
    \/ accelerate_next
    \/ tick

SpecAccelerate == InitAccelerate /\ [][NextAccelerate]_vars

\* a ship with ample fuel that one client loads with a rover and with a loader
\* too heavy for its decks, and accelerates to the north
NextVoyage ==
    \/ \E o \in {roverB, loader} : DictShip_store(o)
    \/ \E d \in Decks, o \in {roverB, loader} : RedisShip_store("w1", d, o)
    \/ \E w \in Writers : _store(w)
    \/ \E w \in Writers : execute(w)
    \/ accelerate(Velocity(81, "N"))
    \/ thruster_fire
    \/ accelerate_next
    \/ tick

SpecVoyage == InitShip /\ [][NextVoyage]_vars

(***************************************************************************)
(* What the claims speak of.                                               *)
(***************************************************************************)
\* the names of the top-level items a deck holds
TopLevelNames(d) == IF DeckClass(d) = "HashDeck" THEN DOMAIN deck_items_set[d] ELSE DOMAIN deck_json[d].objects

\* the mass of the item get(name) returns
ItemMass(d, n) == IF get(d, n).error = "none" THEN mass(get(d, n).obj).v ELSE 0

RECURSIVE SumItemMass(_, _)
SumItemMass(d, names) ==
    IF names = {} THEN 0
    ELSE LET n == CHOOSE x \in names : TRUE IN ItemMass(d, n) + SumItemMass(d, names \ {n})

RECURSIVE SumObjMass(_)
SumObjMass(objs) ==
    IF objs = {} THEN 0
    ELSE LET o == CHOOSE x \in objs : TRUE IN mass(o).v + SumObjMass(objs \ {o})

\* the calls on deck d that have returned
ReturnedOn(d) == {r \in returned : r.deck = d}

\* no store() call on deck d is in progress
Quiet(d) == \A w \in Writers : pc[w] = "idle" \/ call[w].deck # d

\* the stored mass of deck d after the step
stored_mass_after(d) == IF DeckClass(d) = "HashDeck" THEN stored_mass_key'[d] ELSE deck_json'[d].mass

\* the step is writer w's EXEC running its commands
Commits(w) == pc[w] = "queued" /\ ~dirty[w] /\ pc'[w] = "idle"

\* C1: under every interleaving of store() calls of concurrent writers, the
\* stored mass of a deck never exceeds max_storage_kg.
C1_CapacityNeverExceeded == \A d \in Decks : stored_mass(d) <= max_storage_kg

\* C2: after any sequence of store() calls that succeeded or failed with the
\* capacity error, also of a name the deck already holds, the stored mass of a
\* deck is the sum of the masses of its top-level items.
C2_MassIsSumOfItems ==
    (\A r \in returned : r.result \in {"ok", "NoCapacityError"})
        => \A d \in Decks : stored_mass(d) = SumItemMass(d, TopLevelNames(d))

\* C3: when concurrent store() calls of distinctly named objects on a deck have
\* all returned, each succeeded or failed with the capacity error, the stored
\* mass is the sum of the masses of the objects stored with success, and get()
\* returns exactly those.
C3_NoLostOrDuplicatedWrite ==
    \A d \in Decks : (Quiet(d) /\ ~repeated[d]) =>
        /\ \A r \in ReturnedOn(d) : r.result \in {"ok", "NoCapacityError"}
        /\ stored_mass(d) = SumObjMass({r.obj : r \in {x \in ReturnedOn(d) : x.result = "ok"}})
        /\ \A r \in ReturnedOn(d) :
            IF r.result = "ok" THEN get(d, r.obj.name) = Loaded(AsLoaded(r.obj))
            ELSE get(d, r.obj.name).error # "none"

\* the record, the index entry and every contained record and index entry of
\* container o are on HashDeck d
AllPresent(d, o) ==
    /\ deck_item(d, o.name) \in DOMAIN item_hashes'
    /\ o.name \in DOMAIN deck_items_set'[d]
    /\ \A n \in DOMAIN o.objects :
        /\ o.name \in DOMAIN container_items_set'
        /\ o.objects[n].name \in DOMAIN container_items_set'[o.name]
        /\ container_item(o.name, o.objects[n].name) \in DOMAIN item_hashes'

\* C4: HashDeck.store of a container is all-or-nothing: a step of a store()
\* call writes nothing, or it writes the container's record, its index entry,
\* every contained record and index entry, and adds its mass to the counter.
C4_AllOrNothing ==
    [][\A w \in Writers :
        (pc[w] # "idle" /\ pc'[w] # pc[w] /\ DeckClass(call[w].deck) = "HashDeck"
            /\ call[w].obj.type = "vehicle")
        => \/ redis' = redis
           \/ /\ AllPresent(call[w].deck, call[w].obj)
              /\ stored_mass_key'[call[w].deck] = stored_mass_key[call[w].deck] + mass(call[w].obj).v]_vars

\* C5: a store() of an object whose mass is greater than the remaining capacity
\* of the deck fails with NoCapacityError, and no step of a call except the
\* EXEC of its commands changes a key.
C5_OverCapacityRejected ==
    [][\A w \in Writers :
        /\ (pc[w] = "watched" /\ pc'[w] # "watched"
                /\ mass(call[w].obj).v > max_storage_kg - stored_mass(call[w].deck))
            => /\ pc'[w] = "idle"
               /\ [deck |-> call[w].deck, obj |-> call[w].obj, result |-> "NoCapacityError"] \in returned'
               /\ redis' = redis
        /\ (pc'[w] # pc[w] /\ ~Commits(w)) => redis' = redis]_vars

\* C5 witness: a store() was rejected on a deck that holds something
C5_Witness ==
    \E r \in returned : r.result = "NoCapacityError" /\ stored_mass(r.deck) > 0
                            /\ mass(r.obj).v <= max_storage_kg

\* C6: after store() of a non-container object succeeded, get(name) returns an
\* object equal to it, also after later store() calls of other names.
C6_RoundTrip ==
    \A d \in Decks : \A n \in DOMAIN last_stored[d] :
        last_stored[d][n].type # "vehicle" => get(d, n) = Loaded(AsLoaded(last_stored[d][n]))

\* C7: after any sequence of store() calls that succeeded or failed with the
\* capacity error, get(name) of a stored container returns it with exactly the
\* contained objects of the last store() of that name that succeeded, and
\* that store() raised the stored mass by the container's mass, once.
C7_ContainerRoundTrip ==
    /\ []((\A r \in returned : r.result \in {"ok", "NoCapacityError"})
            => \A d \in Decks : \A n \in DOMAIN last_stored[d] :
                last_stored[d][n].type = "vehicle" => get(d, n) = Loaded(AsLoaded(last_stored[d][n])))
    /\ [][\A w \in Writers :
            (Commits(w) /\ call[w].obj.type = "vehicle" /\ ExecOutcome(call[w].deck, call[w].obj) = "ok")
                => stored_mass_after(call[w].deck) = stored_mass(call[w].deck) + mass(call[w].obj).v]_vars

NeverStored(d) == {n \in Names : n \notin Called(d) /\ \A w \in Writers : call[w].deck = d => call[w].obj.name # n}

\* C9: get(name) of a name that was never stored on the deck fails with the
\* NotFound error: not with another error, not with an object.  (get() sends
\* reads only, so the deck is as it was.)
C9_NeverStoredIsNotFound ==
    \A d \in Decks : \A n \in NeverStored(d) : get(d, n) = Raised("NotFound")

\* the records of the objects the stored container n of deck d lists
ListedRecords(d, n) ==
    IF DeckClass(d) = "HashDeck"
    THEN LET index == IF n \in DOMAIN container_items_set THEN DOMAIN container_items_set[n] ELSE {}
         IN  [c \in index |-> HGETALL(item_hashes, container_item(n, c))]
    ELSE deck_json[d].objects[n].objects

\* the names whose top-level record on deck d is a container
StoredContainers(d) ==
    {n \in Names :
        LET top == IF DeckClass(d) = "HashDeck" THEN HGETALL(item_hashes, deck_item(d, n))
                   ELSE IF n \in DOMAIN deck_json[d].objects THEN deck_json[d].objects[n] ELSE EmptyDict
        IN  load_object(top).error = "none" /\ top.type = "vehicle"}

\* a record that is missing, or whose type tag no schema is registered for
Unresolvable(h) == "type" \notin DOMAIN h \/ h.type \notin object_schemas_by_type

\* C10: get(name) of a container fails with InvalidItem, and returns no
\* object, whenever a contained object its index lists has no record or a
\* record of an unknown type.
C10_UnresolvableChildIsInvalidItem ==
    \A d \in Decks : \A n \in StoredContainers(d) :
        (\E c \in DOMAIN ListedRecords(d, n) : Unresolvable(ListedRecords(d, n)[c]))
            => get(d, n) = Raised("InvalidItem")

\* C11: after store() calls that all succeeded, items() of a deck that holds
\* something returns exactly the top-level objects stored on it, one per
\* stored name, and none of the objects a container holds.
C11_ItemsAreTopLevelRecords ==
    \A d \in Decks :
        (Quiet(d) /\ DOMAIN last_stored[d] # {} /\ \A r \in returned : r.result = "ok")
            => /\ items(d).error = "none"
               /\ items(d).obj = {AsLoaded(last_stored[d][n]) : n \in DOMAIN last_stored[d]}

\* the step is a DictDeck.store() call of the DictShip
DictStoreStep == ship_class = "DictShip" /\ ncalls' = ncalls + 1

\* the mass of the object DictDeck.store(o) replaces
Replaced(o) == IF o.name \in DOMAIN storage THEN mass(storage[o.name]).v ELSE 0

\* every step that is not the commit of a store() leaves the ship's mass as it is
OnlyCommitsChangeMass ==
    /\ (ship_class = "RedisShip" /\ \A w \in Writers : ~Commits(w)) => Ship_mass' = Ship_mass
    /\ (DictStoreStep /\ dict_call'.result # "ok") => Ship_mass' = Ship_mass
    /\ (ship_class = "DictShip" /\ ~DictStoreStep) => Ship_mass' = Ship_mass

\* the mass and the weight of the ship are derived from the decks
MassIsDerived ==
    /\ Ship_mass = base_mass + (IF ship_class = "DictShip" THEN SumObjMass({storage[n] : n \in DOMAIN storage})
                                ELSE stored_mass("main") + stored_mass("quarters"))
    /\ weight_kg = Ship_mass * current_gravity

\* C12 as stated: the ship's mass is its base mass plus the stored mass of its
\* decks and its weight is mass times gravity; every store() that succeeds
\* raises the ship's mass by the mass of the object (of a container: base
\* mass plus contained masses), every store() that fails leaves it unchanged.
C12_StoreRaisesShipMass ==
    /\ []MassIsDerived
    /\ [][/\ OnlyCommitsChangeMass
          /\ \A w \in Writers :
                (ship_class = "RedisShip" /\ Commits(w) /\ ExecOutcome(call[w].deck, call[w].obj) = "ok")
                    => Ship_mass' = Ship_mass + mass(call[w].obj).v
          /\ (DictStoreStep /\ dict_call'.result = "ok")
                => Ship_mass' = Ship_mass + mass(dict_call'.obj).v]_vars

\* C12 as amended: the same, but a store() on a DictDeck of a name the deck
\* already holds replaces the object, and raises the ship's mass by the mass
\* of the object less the mass of the object it replaces; on HashDeck and
\* JsonDeck every store() that succeeds raises it by the mass of the object.
C12_StoreRaisesShipMassUnlessReplaced ==
    /\ []MassIsDerived
    /\ [][/\ OnlyCommitsChangeMass
          /\ \A w \in Writers :
                (ship_class = "RedisShip" /\ Commits(w) /\ ExecOutcome(call[w].deck, call[w].obj) = "ok")
                    => Ship_mass' = Ship_mass + mass(call[w].obj).v
          /\ (DictStoreStep /\ dict_call'.result = "ok")
                => Ship_mass' = Ship_mass + mass(dict_call'.obj).v - Replaced(dict_call'.obj)]_vars

\* C12 witness: a ship holds a container it stored, a second store() of the
\* container's name succeeded and a store() of a heavier object failed
C12_Witness ==
    /\ Ship_mass > base_mass
    /\ \E r \in returned : r.result = "NoCapacityError"
    /\ IF ship_class = "DictShip"
       THEN "rover" \in DOMAIN storage /\ dict_call = [obj |-> roverB, result |-> "ok"] /\ ncalls = 3
       ELSE stored_mass("main") = 2 * mass(roverB).v

\* the accelerate() call has ended: the loop ended (Exhausted), the low-fuel
\* rule fired (Cancelled), or an exception left the call
Ended == apc \in {"Exhausted", "Cancelled", "TypeError", "ZeroDivisionError"}

\* the thrust is greater than the weight the call was made with
PositiveAcceleration == THRUST_PER_SECOND_NEWTONS > acall.ship_weight_kg

\* T: the target speed divided by the acceleration per second in km/h
BurnTime ==
    RatDiv(RatInt(acall.target_velocity.speed_kmh),
           RatMul(Rat(THRUST_PER_SECOND_NEWTONS - acall.ship_weight_kg, acall.ship_mass), Rat(18, 5)))

\* floor(T) and the fractional part of T, for T >= 0
WholeSeconds == BurnTime.n \div BurnTime.d
Fraction == RatSub(BurnTime, RatInt(WholeSeconds))

\* what a call logs whose burn sequence is drained: floor(T) events that burn
\* FUEL_BURNED_PER_SECOND, then one that burns the fraction if there is one
LoggedToTheEnd ==
    /\ Len(acall.logged) = WholeSeconds + (IF Fraction.n # 0 THEN 1 ELSE 0)
    /\ \A k \in 1..WholeSeconds : acall.logged[k].fuel_burned = RatInt(FUEL_BURNED_PER_SECOND)
    /\ Fraction.n # 0 =>
          acall.logged[WholeSeconds + 1] =
              [fuel_burned |-> RatMul(RatInt(FUEL_BURNED_PER_SECOND), Fraction), next_burn |-> RatInt(0)]

\* C13: an accelerate() call with positive acceleration that the low-fuel
\* rule does not cancel logs exactly floor(T) events with fuel_burned =
\* FUEL_BURNED_PER_SECOND, then, if and only if T has a fraction f, one event
\* with fuel_burned = FUEL_BURNED_PER_SECOND * f and next_burn = 0.
C13_EventsOfADrainedBurn ==
    (Ended /\ apc # "Cancelled" /\ PositiveAcceleration) => LoggedToTheEnd

RECURSIVE SumLogged(_)
\* the fuel burned according to a sequence of logged event data
SumLogged(logged) ==
    IF logged = << >> THEN RatInt(0)
    ELSE RatAdd(Head(logged).fuel_burned, SumLogged(Tail(logged)))

\* the step logs a burn event of the accelerate() call
LogsEvent == apc = "Drawing" /\ Len(acall'.logged) = Len(acall.logged) + 1

\* the fuel at the start of the call, less the fuel the call's events burned
\* up to and with the event the step logs, less the low-fuel threshold
RemainingFuelAfterStep ==
    RatSub(RatSub(acall.fuel_before, SumLogged(acall'.logged)), RatInt(low_fuel_threshold))

\* C14: on a DictShip and on a RedisShip, after each logged burn event the
\* call stops drawing (Cancelled) if and only if the fuel at the start of the
\* call less the fuel burned by the call's events less the low-fuel threshold
\* is less than the event's next_burn; otherwise it goes on drawing.
C14_LowFuelRule ==
    [][LogsEvent =>
        /\ apc' \in {"Cancelled", "Drawing"}
        /\ apc' = "Cancelled" <=>
              RatLess(RemainingFuelAfterStep, acall'.logged[Len(acall'.logged)].next_burn)]_vars

\* C15: after an accelerate() call with positive acceleration whose loop
\* reached the end of the burn sequence (no low-fuel cancellation), the speed
\* in the target direction is the target speed, whatever it was before.
C15_TargetSpeedReached ==
    (apc = "Exhausted" /\ PositiveAcceleration)
        => speed_kmh[acall.target_velocity.direction] = RatInt(acall.target_velocity.speed_kmh)

\* C16: an accelerate() call whose thrust is not greater than the ship's
\* weight (acceleration <= 0) is ended by an error of fire() before any burn
\* step: it logs no event (so none with a negative fuel_burned), changes no
\* speed cell, and does not end as a drained or cancelled burn.
C16_DegenerateThrustRaises ==
    (apc \notin {"Idle", "weighed"} /\ ~PositiveAcceleration)
        => /\ acall.logged = << >>
           /\ speed_kmh[acall.target_velocity.direction] = acall.speed_before
           /\ apc \notin {"Exhausted", "Cancelled"}

\* C17: an accelerate() call with positive acceleration draws at most
\* floor(T) + 1 burn steps and ends in one of two states, Exhausted (the burn
\* sequence ended) or Cancelled (the low-fuel rule fired); a call that has
\* ended draws no step, logs no event and changes no speed cell.
C17_TwoTerminalStates ==
    /\ []((apc \notin {"Idle", "weighed"} /\ PositiveAcceleration)
            => /\ StepsDrawn <= WholeSeconds + 1
               /\ apc \in {"Drawing", "Exhausted", "Cancelled"})
    /\ [][(apc \in {"Exhausted", "Cancelled"} /\ naccelerate' = naccelerate)
            => /\ apc' = apc
               /\ UNCHANGED <<gen, events, speed_kmh, acall>>]_vars

RECURSIVE AtOrAfter(_, _)
\* the events of evts with timestamps t..MaxTime: by timestamp, those of one
\* timestamp in the order of evts
AtOrAfter(evts, t) ==
    IF t > MaxTime THEN << >>
    ELSE SelectSeq(evts, LAMBDA e : e.timestamp = t) \o AtOrAfter(evts, t + 1)

\* the events add() was called with, in call order
AddedEvents == [k \in 1..Len(added) |-> added[k].event]

\* C18: after any sequence of add() calls no call has failed, also not on a
\* timestamp the log already holds, and the log holds every added event once,
\* by timestamp, events of one timestamp in the order they were added.
C18_LogIsStableByTimestamp ==
    /\ \A k \in 1..Len(added) : added[k].error = "none"
    /\ events = AtOrAfter(AddedEvents, 0)

\* the item index of deck d: the sorted set of a HashDeck, the objects of a JsonDeck
ItemIndex(d) == IF DeckClass(d) = "HashDeck" THEN deck_items_set[d] ELSE deck_json[d].objects

\* writer u is between the WATCH and the EXEC of an attempt on deck d, and stays there
Attempting(u, d) == pc[u] \in {"watched", "queued"} /\ call[u].deck = d /\ pc'[u] = pc[u]

\* C19: when another writer changes the mass counter or the item index of a
\* deck while an attempt on that deck is between its WATCH and its EXEC, the
\* attempt is marked and its EXEC will be rejected; and every attempt that
\* commits finds the stored mass its capacity check read.
C19_CheckNeverStaleAtCommit ==
    [][\A u \in Writers :
        /\ \A d \in Decks :
            (Attempting(u, d) /\ (stored_mass(d)' # stored_mass(d) \/ ItemIndex(d)' # ItemIndex(d)))
                => dirty'[u]
        /\ Commits(u) => checked[u] = stored_mass(call[u].deck)]_vars

\* writer u's attempt starts again: nothing is written, the call stays, and
\* the next step of u is a new WATCH, which is followed by the capacity check
Rejected(u) == pc'[u] = "retry" /\ call'[u] = call[u] /\ redis' = redis

\* C20: when a writer commits on a deck while another writer has passed the
\* capacity check on the same version of that deck, the other writer's EXEC
\* is rejected: it writes nothing and the writer goes back to WATCH, from
\* where it reads the new version, checks the capacity and commits again.
C20_OneCommitPerVersion ==
    [][\A w \in Writers : \A u \in Writers \ {w} :
        /\ (Commits(w) /\ pc[u] = "queued" /\ ~dirty[u] /\ call[u].deck = call[w].deck)
                => dirty'[u]
        /\ (pc[u] = "queued" /\ dirty[u] /\ pc'[u] # pc[u]) => Rejected(u)
        /\ (pc[u] = "retry" /\ pc'[u] # pc[u]) => (pc'[u] = "watched" /\ ~dirty'[u] /\ call'[u] = call[u])]_vars

\* writer w sends the command that raises the stored mass of a call without transaction
WritesMass(w) == pc[w] \in {"incrby", "jsonnumincrby"} /\ pc'[w] = "idle"

\* C21: the variants of store() without a transaction overbook a deck, and only
\* on a stale check: when the command that raises the stored mass takes it
\* over max_storage_kg, the stored mass has changed since the capacity check
\* of that call read it.
C21_OverbookedOnStaleCheckOnly ==
    [][\A w \in Writers, d \in Decks :
        (WritesMass(w) /\ call[w].deck = d /\ stored_mass(d)' > max_storage_kg)
            => checked[w] # stored_mass(d)]_vars

\* every call was made on deck d and has written, the capacity checks of the
\* last calls of the two writers read the same stored mass, and the deck is
\* overbooked
Overbooked(d) ==
    /\ ncalls > 1
    /\ \A w \in Writers : pc[w] = "idle"
    /\ \A r \in returned : r.deck = d /\ r.result = "ok"
    /\ \A w \in Writers, u \in Writers : checked[w] = checked[u]
    /\ stored_mass(d) > max_storage_kg

C21_Witness == Overbooked("main")

\* writer w's attempt runs its capacity check
Checks(w) == pc[w] = "watched" /\ pc'[w] # pc[w]

\* the store() call of w ends with the capacity error and has written nothing
RaisedNoCapacityError(w) ==
    /\ pc'[w] = "idle"
    /\ [deck |-> call[w].deck, obj |-> call[w].obj, result |-> "NoCapacityError"] \in returned'
    /\ redis' = redis

\* C22: the capacity check of an attempt passes exactly when obj.mass plus the
\* stored mass it reads is at most max_storage_kg, so that an object of just
\* the remaining capacity is stored, and fails with the capacity error
\* otherwise; a deck nothing was stored on has capacity max_storage_kg, every
\* successful store lowers capacity_mass by the mass of its object and no
\* other step changes it.
C22_AcceptedUpToCapacity ==
    /\ [](ncalls = 0 => \A d \in Decks : capacity_mass(d) = max_storage_kg)
    /\ [][\A w \in Writers : \A d \in Decks :
            /\ (Checks(w) /\ call[w].deck = d)
                => IF mass(call[w].obj).v + stored_mass(d) <= max_storage_kg
                   THEN pc'[w] = "queued" /\ returned' = returned
                   ELSE RaisedNoCapacityError(w)
            /\ (Commits(w) /\ call[w].deck = d /\ ExecOutcome(d, call[w].obj) = "ok")
                => capacity_mass(d)' = capacity_mass(d) - mass(call[w].obj).v
            /\ (\A u \in Writers : ~(Commits(u) /\ call[u].deck = d /\ ExecOutcome(d, call[u].obj) = "ok"))
                => capacity_mass(d)' = capacity_mass(d)]_vars

\* C22 witness: a store whose object had just the mass of the remaining
\* capacity has filled the HashDeck to its maximum
C22_Witness ==
    /\ capacity_mass("main") = 0
    /\ \E r \in returned : r.deck = "main" /\ r.result = "ok"
    /\ \A w \in Writers : pc[w] = "idle"

\* C23: an attempt of store(), the first of the call or one made after a
\* WatchError, whose capacity check fails ends the call at once with the
\* capacity error: nothing is queued or written, no retry is counted, and
\* the writer does nothing more until its next store() call.
C23_CapacityErrorNotRetried ==
    [][\A w \in Writers :
        /\ (Checks(w) /\ mass(call[w].obj).v > capacity_mass(call[w].deck))
            => (RaisedNoCapacityError(w) /\ retries'[w] = retries[w] /\ ncalls' = ncalls)
        /\ (pc[w] = "idle" /\ pc'[w] # "idle")
            => (ncalls' = ncalls + 1 /\ pc'[w] = "watched" /\ returned' = returned)]_vars

\* C23 witness: of two calls, one by each writer, one has returned the
\* capacity error from the attempt it made after a WatchError
C23_Witness ==
    /\ ncalls = 2
    /\ \A w \in Writers : pc[w] = "idle"
    /\ \E w \in Writers : retries[w] = 1
    /\ \E r \in returned : r.result = "NoCapacityError"

\* the next_burn the k-th whole-second step of the call is said to carry
NextBurnEstimate(k) ==
    IF k < WholeSeconds THEN RatInt(FUEL_BURNED_PER_SECOND)
    ELSE RatMul(RatInt(FUEL_BURNED_PER_SECOND), Fraction)

\* C24: of the events an accelerate() call with positive acceleration logs,
\* those of the whole-second steps before the last carry next_burn =
\* FUEL_BURNED_PER_SECOND, and that of the last whole-second step carries
\* FUEL_BURNED_PER_SECOND times the fraction of T (0 when T has none).
C24_NextBurnOfLastWholeStep ==
    (apc \notin {"Idle", "weighed"} /\ PositiveAcceleration)
        => \A k \in 1..Len(acall.logged) :
              k <= WholeSeconds => acall.logged[k].next_burn = NextBurnEstimate(k)

\* C25: a burn sequence drained to its end has added exactly the target speed
\* to the speed cell of the target direction and its events have burned
\* FUEL_BURNED_PER_SECOND * T; a speed cell changes only in a burn step of a
\* call, and only that of the call's target direction.
C25_DrainedBurnTotals ==
    /\ [](apc = "Exhausted" =>
            /\ RatSub(speed_kmh[acall.target_velocity.direction], acall.speed_before)
                    = RatInt(acall.target_velocity.speed_kmh)
            /\ SumLogged(acall.logged) = RatMul(RatInt(FUEL_BURNED_PER_SECOND), BurnTime))
    /\ [][\A d \in Direction :
            speed_kmh'[d] # speed_kmh[d] => (apc = "Drawing" /\ d = acall.target_velocity.direction)]_vars

RECURSIVE SpeedOfSteps(_, _)
\* what the first k logged steps of the call add to the speed cell: the
\* acceleration per second for each second of fuel burned
SpeedOfSteps(logged, k) ==
    IF k = 0 THEN RatInt(0)
    ELSE RatAdd(SpeedOfSteps(logged, k - 1),
                RatMul(gen.acceleration_per_second_kmh,
                       RatDiv(logged[k].fuel_burned, RatInt(FUEL_BURNED_PER_SECOND))))

\* C26: when the low-fuel rule has cancelled an accelerate() call after k
\* logged events, the speed cell of the target direction holds what it held
\* before the call plus the increments of those k steps, and the generator
\* has yielded k steps and is not asked for more: the cancelled call changes
\* nothing until the next call.
C26_CancelledKeepsAppliedSteps ==
    /\ [](apc = "Cancelled" =>
            /\ speed_kmh[acall.target_velocity.direction]
                    = RatAdd(acall.speed_before, SpeedOfSteps(acall.logged, Len(acall.logged)))
            /\ StepsDrawn = Len(acall.logged))
    /\ [][(apc = "Cancelled" /\ naccelerate' = naccelerate)
            => UNCHANGED <<apc, gen, events, speed_kmh, acall>>]_vars

\* C26 witness: a call was cancelled after its first step, with steps left
C26_Witness ==
    /\ apc = "Cancelled"
    /\ Len(acall.logged) = 1
    /\ gen.target_burn > 1
    /\ speed_kmh[acall.target_velocity.direction] = RatAdd(acall.speed_before, gen.acceleration_per_second_kmh)

\* the fuel the ship was given less the fuel its logged events have burned
RemainingFuel == RatSub(RatInt(current_fuel), SumFuelBurned(events))

\* the generator of the call yields a burn step, whose increment is applied
DrawsStep == apc = "Drawing" /\ StepsDrawn' > StepsDrawn

\* C27: whenever a burn step of an accelerate() call is applied, the ship's
\* fuel less the fuel already burned is at least low_fuel_threshold just
\* before the step: a call started with less applies no step.
C27_NoStepBelowThreshold ==
    [][DrawsStep => ~RatLess(RemainingFuel, RatInt(low_fuel_threshold))]_vars

\* the ship's mass at the moment of the accelerate() call: its weight at that
\* moment is that mass times the gravity, which no step changes
MassAtCall == acall.ship_weight_kg \div current_gravity

\* C28: the burn sequence of every accelerate() call is built for that call,
\* with the ship's mass M at the moment of the call (base mass plus the stored
\* mass of all decks, so with every object stored before the call): its
\* speed increment per second is (THRUST - M * gravity) / M * 3.6.
C28_IncrementFromMassAtCall ==
    (apc \notin {"Idle", "weighed"} /\ gen.started)
        => gen.acceleration_per_second_kmh
              = RatMul(Rat(THRUST_PER_SECOND_NEWTONS - MassAtCall * current_gravity, MassAtCall), Rat(18, 5))

\* some store() commits in this step
SomeCommit == \E w \in Writers : Commits(w)

\* C29: a store() that commits while an accelerate() call is drawing its burn
\* steps leaves the call's burn sequence as it is: the increment per second
\* and the number of whole-second steps computed when the call started, and
\* the steps drawn so far; and every whole-second step of a call adds that
\* increment per second and no step changes what the call computed.
C29_CommitLeavesBurnSequence ==
    [][/\ (SomeCommit /\ apc = "Drawing") => UNCHANGED <<gen, acall, speed_kmh, events, apc>>
       /\ (DrawsStep /\ gen.started)
            => /\ gen'.acceleration_per_second_kmh = gen.acceleration_per_second_kmh
               /\ gen'.target_burn = gen.target_burn
               /\ gen'.remainder = gen.remainder
               /\ gen'.i > gen.i =>
                     speed_kmh'[acall.target_velocity.direction]
                        = RatAdd(speed_kmh[acall.target_velocity.direction], gen.acceleration_per_second_kmh)]_vars

\* C29 witness: a store committed when the call had drawn its first burn
\* step and raised the ship's mass; the call has since drawn its second
\* whole-second step, with the increment of the first
C29_Witness ==
    /\ apc \in {"Drawing", "Exhausted", "Cancelled"}
    /\ stored_at_step = 1
    /\ Ship_mass > acall.ship_mass
    /\ gen.i >= 2
    /\ speed_kmh[acall.target_velocity.direction]
            = RatAdd(acall.speed_before, SpeedOfSteps(acall.logged, Len(acall.logged)))

\* a step of a store() call, whatever its outcome
StoreStep == pc' # pc \/ DictStoreStep

\* a step of an accelerate() call
AccelerateStep == <<apc, acall, gen, naccelerate>>' # <<apc, acall, gen, naccelerate>>

FuelLeftOfCall == RatSub(acall.fuel_before, SumLogged(acall.logged))

\* C31: an accelerate() call that starts with fuel of at least
\* low_fuel_threshold + FUEL_BURNED_PER_SECOND never burns into the reserve:
\* after each of its burn steps, and when it has ended, the fuel it started
\* with less the fuel it has burned is at least low_fuel_threshold.
C31_ReserveIsKept ==
    (apc # "Idle" /\ ~RatLess(acall.fuel_before, RatInt(low_fuel_threshold + FUEL_BURNED_PER_SECOND)))
        => ~RatLess(FuelLeftOfCall, RatInt(low_fuel_threshold))

\* C32: while an accelerate() call draws its burn steps and when it has ended,
\* the call has logged as many events as its generator has yielded steps,
\* and the speed gained in the target direction is the acceleration per
\* second times the logged fuel_burned over FUEL_BURNED_PER_SECOND: no
\* increment is applied without its event.
C32_EveryIncrementIsLogged ==
    (apc \notin {"Idle", "weighed"} /\ gen.started)
        => /\ Len(acall.logged) = StepsDrawn
           /\ RatSub(speed_kmh[acall.target_velocity.direction], acall.speed_before)
                = RatMul(gen.acceleration_per_second_kmh,
                         RatDiv(SumLogged(acall.logged), RatInt(FUEL_BURNED_PER_SECOND)))

\* C33: a store() that commits on one deck leaves unchanged the stored mass
\* of every other deck and the result of get(name) on every other deck,
\* also when the other deck holds a container or an item of the same name.
C33_DecksAreIsolated ==
    [][\A w \in Writers : \A d \in AllDecks :
        (Commits(w) /\ call[w].deck = d)
            => \A e \in AllDecks \ {d} :
                /\ stored_mass(e)' = stored_mass(e)
                /\ \A n \in Names : get(e, n)' = get(e, n)]_vars

\* the EXEC of writer w answers nil: its attempt is rejected
Rejects(w) == pc[w] = "queued" /\ pc'[w] = "retry"

\* C34: the EXEC of a store() attempt is rejected only when the key it WATCHes
\* was modified since its WATCH, which happens only in a step in which the
\* EXEC of another writer on the same deck runs; and under fair scheduling
\* every store() call that was made returns.
C34_CommitLoopProgress ==
    /\ [][\A u \in Writers :
            /\ Rejects(u) => dirty[u]
            /\ (~dirty[u] /\ dirty'[u])
                 => /\ pc[u] \in {"watched", "queued"}
                    /\ \E w \in Writers \ {u} : Commits(w) /\ call[w].deck = call[u].deck]_vars
    /\ \A w \in Writers : (pc[w] # "idle") ~> (pc[w] = "idle")

\* a call whose EXEC was rejected has returned
C34_Witness == \E w \in Writers : retries[w] > 0 /\ pc[w] = "idle" /\ returned # {}

====
